---- MODULE Spec2Model ----
(***************************************************************************)
(* Model of the wavetable lookup engine of mb-sound,                       *)
(* ext/mb/sound/fast_wavetable/fast_wavetable.c.                           *)
(*                                                                         *)
(* Number representation.  TLC has integers only, so every real value is   *)
(* an integer numerator over a fixed denominator:                          *)
(*   - a single-precision value (an element of a Numo::SFloat buffer, or   *)
(*     a coordinate passed in) is f / Den;                                 *)
(*   - a table sample is a whole number (a float with no fraction);        *)
(*   - a double returned by a lookup is x / Scale, Scale = 2 * Den^4,      *)
(*     which holds every product the kernels form without rounding.        *)
(* Double arithmetic is therefore exact in the model; the narrowing of a   *)
(* double to a float on a store into a float buffer is not (ToFloat).      *)
(***************************************************************************)
EXTENDS Integers, Sequences, FiniteSets, TLC

\* ---------------------------------------------------------------- bounds
\* Largest number of rows / columns of a table the caller builds.
MaxRows == 2
MaxCols == 2
\* A single-precision value is f / Den; coordinates range over -Den .. Den,
\* i.e. over [-1.0, 1.0] in steps of 1 / Den.
Den == 4
\* Longest number / phase buffer passed to the batch lookup.
MaxLen == 2
\* Largest column index magnitude passed to fetch_oob directly.
MaxIdx == 5
\* ssize_t and long long are given a narrow width: the greatest value of
\* the type (SSIZE_MAX, LLONG_MAX) is this, the least is one further below
\* zero.
SSIZE_MAX == 31

Scale == 2 * Den * Den * Den * Den
Coords == (0 - Den) .. Den
SSIZE_MIN == 0 - SSIZE_MAX - 1
\* x is a value of ssize_t.  A conversion of a double to ssize_t, or a sum
\* of ssize_t, whose result is not one is undefined behaviour.
InSsize(x) == x \in SSIZE_MIN .. SSIZE_MAX

\* ------------------------------------------------------- C arithmetic
\* C's % on signed operands truncates toward zero (sign of the dividend).
\* Only used with b > 0: b = 0 is undefined behaviour, handled by callers.
CRem(a, b) == IF a >= 0 THEN a % b ELSE 0 - ((0 - a) % b)

\* floor() of x / Den.
Floor(x) == x \div Den

\* fmod(x, 1) of x / Den: C's fmod keeps the sign of the dividend.
Fmod1(x) == CRem(x, Den)

\* llabs()
llabs(x) == IF x < 0 THEN 0 - x ELSE x

\* (float) of a double x / Scale: the nearest f / Den, ties to even.
ToFloat(x) ==
    LET step == Scale \div Den
        q == x \div step
        r == x % step
    IN  IF 2 * r < step THEN q
        ELSE IF 2 * r > step THEN q + 1
        ELSE IF q % 2 = 0 THEN q ELSE q + 1

\* A float f / Den promoted to a double, as a numerator over Scale.
ToDouble(f) == f * (Scale \div Den)

\* ------------------------------------------------------- wrapping modes
MODE_WRAP == "wrap"
MODE_BOUNCE == "bounce"
MODE_ZERO == "zero"
MODE_CLAMP == "clamp"
wrapping_mode == {MODE_WRAP, MODE_BOUNCE, MODE_ZERO, MODE_CLAMP}

\* Symbols a caller may pass as the wrapping mode / lookup mode.
WrapSyms == wrapping_mode \cup {"other"}
LookupSyms == {"linear", "cubic", "other"}

\* get_wrapping_mode: the enum of the symbol, or "raise" (rb_raise).
get_wrapping_mode(wrap) ==
    IF wrap = "wrap" THEN MODE_WRAP
    ELSE IF wrap = "bounce" THEN MODE_BOUNCE
    ELSE IF wrap = "zero" THEN MODE_ZERO
    ELSE IF wrap = "clamp" THEN MODE_CLAMP
    ELSE "raise"

\* --------------------------------------------------------- memory reads
\* The result of a piece of C code: its value, the flat table offsets it
\* read, whether it ran into undefined behaviour (ub), the zero divisors it
\* divided by (dz), and whether it took a remainder by columns (modcols).
\* After undefined behaviour the value is meaningless (the actions choose
\* the outcome).
Res(v, rd, u, d, mc) ==
    [val |-> v, reads |-> rd, ub |-> u, dz |-> d, modcols |-> mc]

\* wavetable[addr]: a read outside the buffer is undefined behaviour.
Load(wavetable, addr) ==
    IF addr \in DOMAIN wavetable
    THEN Res(wavetable[addr], {addr}, FALSE, {}, FALSE)
    ELSE Res(0, {addr}, TRUE, {}, FALSE)

\* ------------------------------------------------------- boundary fetch
\* base is the row's offset in the flat table (wavetable + offset).
fetch_wrap_noreduce(wavetable, base, columns, idx) ==
    IF columns = 0 THEN Res(0, {}, TRUE, {"columns"}, TRUE)
    ELSE LET i1 == IF idx < 0 THEN CRem(idx, columns) + columns
                   ELSE CRem(idx, columns)
             ld == Load(wavetable, base + i1)
         IN  Res(ld.val, ld.reads, ld.ub, {}, TRUE)
fetch_wrap(wavetable, base, columns, idx) ==
    IF columns = 0 THEN Res(0, {}, TRUE, {"columns"}, TRUE)
    ELSE LET i1 == IF idx < 0 THEN CRem(idx, columns) + columns ELSE idx
             i2 == IF i1 >= columns THEN CRem(i1, columns) ELSE i1
             ld == Load(wavetable, base + i2)
         IN  Res(ld.val, ld.reads, ld.ub, {}, idx < 0 \/ i1 >= columns)

\* llabs of the least value of the type is not representable: undefined
\* behaviour.
fetch_bounce(wavetable, base, columns, idx) ==
    IF columns <= 1 THEN Load(wavetable, base + 0)
    ELSE IF idx = SSIZE_MIN THEN Res(0, {}, TRUE, {}, FALSE)
    ELSE LET looplen == columns * 2 - 2
             i1 == llabs(idx) % looplen
             i2 == IF i1 > columns - 1 THEN looplen - i1 ELSE i1
         IN  Load(wavetable, base + i2)

fetch_clamp_offbyone(wavetable, base, columns, idx) ==
    IF idx < 0 THEN Load(wavetable, base + 0)
    ELSE IF idx > columns THEN Load(wavetable, base + columns - 1)
    ELSE Load(wavetable, base + idx)
fetch_clamp(wavetable, base, columns, idx) ==
    IF idx < 0 THEN Load(wavetable, base + 0)
    ELSE IF idx >= columns THEN Load(wavetable, base + columns - 1)
    ELSE Load(wavetable, base + idx)

fetch_zero(wavetable, base, columns, idx) ==
    IF idx < 0 \/ idx >= columns THEN Res(0, {}, FALSE, {}, FALSE)
    ELSE Load(wavetable, base + idx)

fetch_oob(wavetable, base, columns, idx, wrap) ==
    CASE wrap = MODE_WRAP -> fetch_wrap(wavetable, base, columns, idx)
      [] wrap = MODE_BOUNCE -> fetch_bounce(wavetable, base, columns, idx)
      [] wrap = MODE_CLAMP -> fetch_clamp(wavetable, base, columns, idx)
      [] wrap = MODE_ZERO -> fetch_zero(wavetable, base, columns, idx)
      [] OTHER -> Res(0, {}, FALSE, {}, FALSE)

\* ------------------------------------------------------- cubic kernel
\* cubic_interp on whole-number samples and blend / Den.  The halves of the
\* slopes d0, d1 are kept exact by carrying every coefficient doubled; the
\* value returned is the numerator over 2 * Den^3.
cubic_interp_d(y_1, y0, y1, y2, blend) ==
    LET d0x2 == y1 - y_1
        d1x2 == y2 - y0
        ax2 == 2 * (2 * (y0 - y1)) + d0x2 + d1x2
        bx2 == 2 * (3 * (y1 - y0)) - 2 * d0x2 - d1x2
        cx2 == d0x2
        dx2 == 2 * y1
    IN  ax2 * blend * blend * blend + bx2 * blend * blend * Den
          + cx2 * blend * Den * Den + dx2 * Den * Den * Den
cubic_interp(y_1, y0, y1, y2, blend) ==
    LET d0x2 == y1 - y_1
        d1x2 == y2 - y0
        ax2 == 2 * (2 * (y0 - y1)) + d0x2 + d1x2
        bx2 == 2 * (3 * (y1 - y0)) - 2 * d0x2 - d1x2
        cx2 == d0x2
        dx2 == 2 * y0
    IN  ax2 * blend * blend * blend + bx2 * blend * blend * Den
          + cx2 * blend * Den * Den + dx2 * Den * Den * Den

\* The coefficients ruby_cubic_coeffs computes, on whole-number samples:
\* <<a, b, c, d>>, each doubled (the numerator over 2).
cubic_coeffs_swapped(y_1, y0, y1, y2) ==
    LET d0x2 == y1 - y_1
        d1x2 == y2 - y0
        ax2 == 2 * (2 * (y0 - y1)) + d0x2 + d1x2
        bx2 == 2 * (3 * (y1 - y0)) - 2 * d0x2 - d1x2
        cx2 == d1x2
        dx2 == 2 * y0
    IN  <<ax2, bx2, cx2, dx2>>
cubic_coeffs(y_1, y0, y1, y2) ==
    LET d0x2 == y1 - y_1
        d1x2 == y2 - y0
        ax2 == 2 * (2 * (y0 - y1)) + d0x2 + d1x2
        bx2 == 2 * (3 * (y1 - y0)) - 2 * d0x2 - d1x2
        cx2 == d0x2
        dx2 == 2 * y0
    IN  <<ax2, bx2, cx2, dx2>>

\* ------------------------------------------------------- 2D lookups
\* The result of a lookup: Res plus whether a remainder by rows was taken
\* (modrows), the number of fetch_oob calls (fetches), the two blend weights
\* (over Den) and the samples fetched, in call order.
LookupRes(v, rd, u, d, mc, mr, nf, rr, cr, cs) ==
    [val |-> v, reads |-> rd, ub |-> u, dz |-> d, modcols |-> mc,
     modrows |-> mr, fetches |-> nf, rowratio |-> rr, colratio |-> cr,
     corners |-> cs]

\* The part of frow's computation before the scaling by rows: number
\* reduced by fmod, plus 1 when number is negative (over Den).
NormNumber(number) ==
    IF number >= 0 THEN Fmod1(number) ELSE Fmod1(number) + Den

\* b * ratio + a * (1.0 - ratio), ratio over Den: Den times the blend.
Blend_swapped(a, b, ratio) == a * ratio + b * (Den - ratio)
Blend(a, b, ratio) == b * ratio + a * (Den - ratio)

\* Interpolated 2D lookup; number and phase are over Den, the value is the
\* numerator over Scale.
outer_linear(wavetable, rows, columns, number, phase, wrap) ==
    IF rows = 0
    THEN LookupRes(0, {}, TRUE, {"rows"}, FALSE, TRUE, 0, 0, 0, <<>>)
    ELSE IF ~InSsize(Floor(phase * columns))
            \/ ~InSsize(Floor(phase * columns) + 1)
    THEN LookupRes(0, {}, TRUE, {}, FALSE, TRUE, 0, 0, 0, <<>>)
    ELSE
    LET frow == NormNumber(number) * rows
        row1 == Floor(frow) % rows
        row2 == (row1 + 1) % rows
        offset1 == columns * row1
        offset2 == columns * row2
        rowratio == frow - row1 * Den
        fcol == phase * columns
        col1 == Floor(fcol)
        col2 == col1 + 1
        colratio == fcol - col1 * Den
        val1l == fetch_oob(wavetable, offset1, columns, col1, wrap)
        val1r == fetch_oob(wavetable, offset1, columns, col2, wrap)
        val2l == fetch_oob(wavetable, offset2, columns, col1, wrap)
        val2r == fetch_oob(wavetable, offset2, columns, col2, wrap)
        all == {val1l, val1r, val2l, val2r}
        valtop == Blend(val1l.val, val1r.val, colratio)
        valbot == Blend(val2l.val, val2r.val, colratio)
    IN  LookupRes(
          Blend(valtop, valbot, rowratio) * 2 * Den * Den,
          UNION {f.reads : f \in all},
          \E f \in all : f.ub,
          UNION {f.dz : f \in all},
          \E f \in all : f.modcols,
          TRUE, 4, rowratio, colratio,
          <<val1l.val, val1r.val, val2l.val, val2r.val>>)

\* Cubic interpolated 2D lookup; same units as outer_linear.
outer_cubic(wavetable, rows, columns, number, phase, wrap) ==
    IF rows = 0
    THEN LookupRes(0, {}, TRUE, {"rows"}, FALSE, TRUE, 0, 0, 0, <<>>)
    ELSE IF ~InSsize(Floor(phase * columns))
            \/ ~InSsize(Floor(phase * columns) - 1)
            \/ ~InSsize(Floor(phase * columns) + 2)
    THEN LookupRes(0, {}, TRUE, {}, FALSE, TRUE, 0, 0, 0, <<>>)
    ELSE
    LET frow == NormNumber(number) * rows
        row1 == Floor(frow) % rows
        row2 == (row1 + 1) % rows
        offset1 == columns * row1
        offset2 == columns * row2
        rowratio == frow - row1 * Den
        fcol == phase * columns
        col1 == Floor(fcol)
        colratio == fcol - col1 * Den
        t == [k \in 1 .. 4 |->
                fetch_oob(wavetable, offset1, columns, col1 + k - 2, wrap)]
        b == [k \in 1 .. 4 |->
                fetch_oob(wavetable, offset2, columns, col1 + k - 2, wrap)]
        all == {t[k] : k \in 1 .. 4} \cup {b[k] : k \in 1 .. 4}
        valtop == cubic_interp(t[1].val, t[2].val, t[3].val, t[4].val, colratio)
        valbot == cubic_interp(b[1].val, b[2].val, b[3].val, b[4].val, colratio)
    IN  LookupRes(
          Blend(valtop, valbot, rowratio),
          UNION {f.reads : f \in all},
          \E f \in all : f.ub,
          UNION {f.dz : f \in all},
          \E f \in all : f.modcols,
          TRUE, 8, rowratio, colratio,
          <<t[1].val, t[2].val, t[3].val, t[4].val,
            b[1].val, b[2].val, b[3].val, b[4].val>>)

\* ------------------------------------------------------------- state
VARIABLES
    wavetable,  \* the table's samples, flat and row-major: offset -> sample
    rows,       \* RNARRAY_SHAPE(wavetable)[0]
    columns,    \* RNARRAY_SHAPE(wavetable)[1]
    op,         \* the function of the module the caller is in
    args,       \* its scalar arguments
    outcome,    \* "idle", "running", "returned", "nil", "raised", "crashed"
    ret,        \* the double returned (numerator over Scale)
    eff,        \* what the call did so far (a LookupRes)
    number,     \* batch lookup: the number buffer (floats over Den)
    phase,      \* batch lookup: the phase buffer (floats over Den)
    same,       \* batch lookup: number and phase are one and the same array
    i,          \* batch lookup: the loop index
    access,     \* batch lookup: the reads and writes of phase slots, in order
    number0,    \* the number buffer as it was when the call began
    phase0,     \* the phase buffer as it was when the call began
    wavetable0, \* the table's samples as they were when the call began
    samples,    \* cubic_interp, cubic_coeffs: <<y_1, y0, y1, y2>> passed in
    blend,      \* cubic_interp: the blend passed in (over Den)
    coeffs      \* cubic_coeffs: the array returned, <<a, b, c, d>> doubled

vars == <<wavetable, rows, columns, op, args, outcome, ret, eff,
          number, phase, same, i, access, number0, phase0, wavetable0,
          samples, blend, coeffs>>

table == <<wavetable, rows, columns>>
buffers == <<number, phase, same, i, access, number0, phase0, wavetable0>>
cubic == <<samples, blend, coeffs>>

\* ------------------------------------------------------------- inputs
\* Tables the caller builds: every shape up to MaxRows x MaxCols (a shape
\* with no rows or no columns has no samples), holding a single 1 among
\* zeros, a rising ramp or a falling ramp.
Offsets(r, c) == 0 .. (r * c - 1)
Impulse(r, c, k) == [o \in Offsets(r, c) |-> IF o = k THEN 1 ELSE 0]
Ramp(r, c) == [o \in Offsets(r, c) |-> o + 1]
NegRamp(r, c) == [o \in Offsets(r, c) |-> 0 - (o + 1)]
Tables(r, c) ==
    {Impulse(r, c, k) : k \in Offsets(r, c)} \cup {Ramp(r, c), NegRamp(r, c)}

\* Values a buffer element has in a batch call, and the buffers built of them.
BatchVals == {1, 0 - Den}
Buffers == UNION {[1 .. n -> BatchVals] : n \in 0 .. MaxLen}

\* What a read that is undefined behaviour yields when the process survives.
Garbage == {0, Scale}

\* The shape defects of the arrays passed in, one at a time.
Defects == {"table_ndim", "table_noncontig", "number_ndim",
            "number_noncontig", "phase_ndim", "phase_noncontig"}

Args(n, p, x, w, l, d) ==
    [number |-> n, phase |-> p, idx |-> x, wrap |-> w, lookup |-> l,
     defect |-> d]
NoEff == LookupRes(0, {}, FALSE, {}, FALSE, FALSE, 0, 0, 0, <<>>)

NoArgs == Args(0, 0, 0, "wrap", "linear", "none")

\* The caller is between calls: nothing but the table is kept.
InitCall ==
    /\ op = "none"
    /\ args = NoArgs
    /\ outcome = "idle"
    /\ ret = 0
    /\ eff = NoEff
    /\ number = <<>>
    /\ phase = <<>>
    /\ same = FALSE
    /\ i = 0
    /\ access = <<>>
    /\ number0 = <<>>
    /\ phase0 = <<>>
    /\ wavetable0 = wavetable
    /\ samples = <<>>
    /\ blend = 0
    /\ coeffs = <<>>

Init ==
    /\ rows \in 0 .. MaxRows
    /\ columns \in 0 .. MaxCols
    /\ wavetable \in Tables(rows, columns)
    /\ InitCall

\* A call of anything but the cubic kernel itself has no samples.
NoCubic ==
    /\ samples' = <<>>
    /\ blend' = 0
    /\ coeffs' = <<>>

\* A single-point call leaves no buffers behind.
NoBuffers ==
    /\ number' = <<>>
    /\ phase' = <<>>
    /\ same' = FALSE
    /\ i' = 0
    /\ access' = <<>>
    /\ number0' = <<>>
    /\ phase0' = <<>>
    /\ wavetable0' = wavetable

\* The call ends by raising, before anything was computed.
Raise ==
    /\ outcome' = "raised"
    /\ ret' = 0
    /\ eff' = NoEff

\* The call ends having run into undefined behaviour: the process is
\* killed (SIGFPE, SIGSEGV), or it goes on with a meaningless value.
Undefined(r) ==
    /\ eff' = r
    /\ \/ outcome' = "crashed" /\ ret' = 0
       \/ outcome' = "returned" /\ ret' \in Garbage

\* ------------------------------------------------------------ actions
\* MB::Sound::FastWavetable.fetch_oob(narray, idx, mode), the table being
\* the narray: the fetch is from its first row.
ruby_fetch_oob(idx, mode) ==
    /\ outcome = "idle"
    /\ op' = "fetch_oob"
    /\ args' = Args(0, 0, idx, mode, "linear", "none")
    /\ UNCHANGED table
    /\ NoBuffers
    /\ NoCubic
    /\ LET wrap == get_wrapping_mode(mode)
           r == fetch_oob(wavetable, 0, columns, idx, wrap)
           e == LookupRes(r.val * Scale, r.reads, r.ub, r.dz, r.modcols,
                          FALSE, 1, 0, 0, <<r.val>>)
       IN  IF wrap = "raise" THEN Raise
           ELSE IF columns = 0
           THEN outcome' = "nil" /\ ret' = 0 /\ eff' = NoEff
           ELSE IF r.ub THEN Undefined(e)
           ELSE outcome' = "returned" /\ ret' = e.val /\ eff' = e

\* The common body of ruby_outer_linear and ruby_outer_cubic; r is the
\* result of the C lookup.
RubyOuter(wrapsym, defect, r) ==
    IF get_wrapping_mode(wrapsym) = "raise" THEN Raise
    ELSE IF defect = "table_ndim" THEN Raise
    ELSE IF r.ub THEN Undefined(r)
    ELSE outcome' = "returned" /\ ret' = r.val /\ eff' = r

\* MB::Sound::FastWavetable.outer_linear(wavetable, number, phase, wrap)
ruby_outer_linear(rho, phi, wrap, defect) ==
    /\ outcome = "idle"
    /\ op' = "outer_linear"
    /\ args' = Args(rho, phi, 0, wrap, "linear", defect)
    /\ UNCHANGED table
    /\ NoBuffers
    /\ NoCubic
    /\ RubyOuter(wrap, defect,
                 outer_linear(wavetable, rows, columns, rho, phi,
                              get_wrapping_mode(wrap)))

\* MB::Sound::FastWavetable.outer_cubic(wavetable, number, phase, wrap)
ruby_outer_cubic(rho, phi, wrap, defect) ==
    /\ outcome = "idle"
    /\ op' = "outer_cubic"
    /\ args' = Args(rho, phi, 0, wrap, "cubic", defect)
    /\ UNCHANGED table
    /\ NoBuffers
    /\ NoCubic
    /\ RubyOuter(wrap, defect,
                 outer_cubic(wavetable, rows, columns, rho, phi,
                             get_wrapping_mode(wrap)))

\* MB::Sound::FastWavetable.cubic_interp(y_1, y0, y1, y2, blend): the value
\* returned is the numerator over 2 * Den^3.
ruby_cubic_interp(y_1, y0, y1, y2, t) ==
    /\ outcome = "idle"
    /\ op' = "cubic_interp"
    /\ args' = NoArgs
    /\ UNCHANGED table
    /\ NoBuffers
    /\ samples' = <<y_1, y0, y1, y2>>
    /\ blend' = t
    /\ coeffs' = <<>>
    /\ outcome' = "returned"
    /\ ret' = cubic_interp(y_1, y0, y1, y2, t)
    /\ eff' = NoEff

\* MB::Sound::FastWavetable.cubic_coeffs(y_1, y0, y1, y2)
ruby_cubic_coeffs(y_1, y0, y1, y2) ==
    /\ outcome = "idle"
    /\ op' = "cubic_coeffs"
    /\ args' = NoArgs
    /\ UNCHANGED table
    /\ NoBuffers
    /\ samples' = <<y_1, y0, y1, y2>>
    /\ blend' = 0
    /\ coeffs' = cubic_coeffs(y_1, y0, y1, y2)
    /\ outcome' = "returned"
    /\ ret' = 0
    /\ eff' = NoEff

\* Samples passed to the cubic kernel directly.
SampleVals == {0 - 1, 0, 2}

\* Arguments of a single-point lookup: every coordinate pair with every
\* mode; an unknown mode symbol and a table that is not 2D raise whatever
\* the coordinates are, so they are tried at one coordinate pair.
LookupInputs ==
    (Coords \X Coords \X wrapping_mode \X {"none"})
    \cup ({0} \X {0} \X {"other"} \X {"none"})
    \cup ({0} \X {0} \X wrapping_mode \X {"table_ndim"})

\* Indexes passed to fetch_oob directly: the small ones and the two ends of
\* the type (NUM2LL accepts both).
Indexes == ((0 - MaxIdx) .. MaxIdx) \cup {SSIZE_MIN, SSIZE_MAX}

FetchCall == \E idx \in Indexes, mode \in WrapSyms :
                ruby_fetch_oob(idx, mode)
LinearCall == \E a \in LookupInputs : ruby_outer_linear(a[1], a[2], a[3], a[4])
CubicCall == \E a \in LookupInputs : ruby_outer_cubic(a[1], a[2], a[3], a[4])
InterpCall == \E y_1 \in SampleVals, y0 \in SampleVals, y1 \in SampleVals,
                 y2 \in SampleVals, t \in Coords :
                 ruby_cubic_interp(y_1, y0, y1, y2, t)
CoeffsCall == \E y_1 \in SampleVals, y0 \in SampleVals, y1 \in SampleVals,
                 y2 \in SampleVals :
                 ruby_cubic_coeffs(y_1, y0, y1, y2)

\* The caller has taken the result (or rescued the exception) and is free
\* to call again; a crashed process calls nothing any more.
Finish ==
    /\ outcome \in {"returned", "nil", "raised"}
    /\ op' = "none"
    /\ args' = NoArgs
    /\ outcome' = "idle"
    /\ ret' = 0
    /\ eff' = NoEff
    /\ NoBuffers
    /\ NoCubic
    /\ UNCHANGED table

Next ==
    \/ FetchCall
    \/ LinearCall
    \/ CubicCall
    \/ InterpCall
    \/ CoeffsCall
    \/ Finish

Spec == Init /\ [][Next]_vars

\* ------------------------------------------------- lookups at any phase
\* Phases far outside [0, 1): plus and minus SSIZE_MAX + 1 (2^63 for the
\* 64-bit type), both finite doubles.
HugePhases == {(SSIZE_MAX + 1) * Den, 0 - (SSIZE_MAX + 1) * Den}

\* Arguments of a single-point lookup whose phase is any finite number.
AnyPhaseInputs ==
    Coords \X (Coords \cup HugePhases) \X wrapping_mode \X {"none"}

LinearAnyPhase == \E a \in AnyPhaseInputs :
                     ruby_outer_linear(a[1], a[2], a[3], a[4])
CubicAnyPhase == \E a \in AnyPhaseInputs :
                    ruby_outer_cubic(a[1], a[2], a[3], a[4])

\* The lookups at any phase are tried on the rising ramp of every shape
\* with a row and a column at least.
InitAnyPhase ==
    /\ rows \in 1 .. MaxRows
    /\ columns \in 1 .. MaxCols
    /\ wavetable = Ramp(rows, columns)
    /\ InitCall

NextAnyPhase == LinearAnyPhase \/ CubicAnyPhase \/ Finish

SpecAnyPhase == InitAnyPhase /\ [][NextAnyPhase]_vars

\* --------------------------------------------------------- batch lookup
\* The checks of ruby_wavetable_lookup that come before the loops: "raise"
\* or "ok".
Validate_nophase(wrap, defect, nums, phis) ==
    IF get_wrapping_mode(wrap) = "raise" THEN "raise"
    ELSE IF defect \in {"table_ndim", "table_noncontig"} THEN "raise"
    ELSE IF defect \in {"number_ndim", "number_noncontig"} THEN "raise"
    ELSE IF Len(nums) # Len(phis) THEN "raise"
    ELSE "ok"
Validate(wrap, defect, nums, phis) ==
    IF get_wrapping_mode(wrap) = "raise" THEN "raise"
    ELSE IF defect \in {"table_ndim", "table_noncontig"} THEN "raise"
    ELSE IF defect \in {"number_ndim", "number_noncontig",
                        "phase_ndim", "phase_noncontig"} THEN "raise"
    ELSE IF Len(nums) # Len(phis) THEN "raise"
    ELSE "ok"

\* MB::Sound::FastWavetable.wavetable_lookup(wavetable, number, phase,
\* lookup, wrap), up to the choice of the loop.  alias: the caller passes
\* one array as both number and phase (the cast of a Numo::SFloat is the
\* array itself, which is how phase can be overwritten in place at all).
wavetable_lookup_begin(nums, phis, alias, lookup, wrap, defect) ==
    /\ outcome = "idle"
    /\ alias => nums = phis
    /\ op' = "wavetable_lookup"
    /\ args' = Args(0, 0, 0, wrap, lookup, defect)
    /\ number' = nums
    /\ phase' = phis
    /\ same' = alias
    /\ number0' = nums
    /\ phase0' = phis
    /\ wavetable0' = wavetable
    /\ i' = 0
    /\ access' = <<>>
    /\ ret' = 0
    /\ eff' = NoEff
    /\ outcome' = IF Validate(wrap, defect, nums, phis) = "raise"
                  THEN "raised" ELSE "running"
    /\ NoCubic
    /\ UNCHANGED table

\* What the call did so far, and one more lookup.
Merge(e, r) ==
    LookupRes(r.val, e.reads \cup r.reads, e.ub \/ r.ub, e.dz \cup r.dz,
              e.modcols \/ r.modcols, e.modrows \/ r.modrows,
              e.fetches + r.fetches, r.rowratio, r.colratio, r.corners)

\* phi_ptr[i] = v, v a double: the store narrows it to a float.  With one
\* array in both roles the store shows through rho_ptr as well.
Store_both(v) ==
    /\ phase' = [phase EXCEPT ![i + 1] = ToFloat(v)]
    /\ number' = [number EXCEPT ![i + 1] = ToFloat(v)]
Store(v) ==
    /\ phase' = [phase EXCEPT ![i + 1] = ToFloat(v)]
    /\ number' = IF same THEN phase' ELSE number

\* The lookup of one loop iteration: rho_ptr[i] and phi_ptr[i] are read and
\* promoted to double.
SlotLookup_swapped ==
    LET rho == IF same THEN phase[i + 1] ELSE number[i + 1]
        phi == phase[i + 1]
        wrapmode == get_wrapping_mode(args.wrap)
    IN  IF args.lookup = "linear"
        THEN outer_linear(wavetable, rows, columns, phi, rho, wrapmode)
        ELSE outer_cubic(wavetable, rows, columns, phi, rho, wrapmode)
SlotLookup ==
    LET rho == IF same THEN phase[i + 1] ELSE number[i + 1]
        phi == phase[i + 1]
        wrapmode == get_wrapping_mode(args.wrap)
    IN  IF args.lookup = "linear"
        THEN outer_linear(wavetable, rows, columns, rho, phi, wrapmode)
        ELSE outer_cubic(wavetable, rows, columns, rho, phi, wrapmode)

\* One iteration of the linear or of the cubic loop.
wavetable_lookup_step ==
    /\ op = "wavetable_lookup"
    /\ outcome = "running"
    /\ args.lookup \in {"linear", "cubic"}
    /\ i < Len(phase)
    /\ LET r == SlotLookup
       IN  /\ eff' = Merge(eff, r)
           /\ IF r.ub
              THEN \/ /\ outcome' = "crashed"
                      /\ UNCHANGED <<number, phase, i, access>>
                   \/ /\ \E g \in Garbage : Store(g)
                      /\ outcome' = "running"
                      /\ i' = i + 1
                      /\ access' = access \o <<<<"read", i>>, <<"write", i>>>>
              ELSE /\ Store(r.val)
                   /\ outcome' = "running"
                   /\ i' = i + 1
                   /\ access' = access \o <<<<"read", i>>, <<"write", i>>>>
    /\ UNCHANGED <<table, op, args, ret, same, number0, phase0, wavetable0,
                   cubic>>

\* The loop is over: phase is returned.
wavetable_lookup_return ==
    /\ op = "wavetable_lookup"
    /\ outcome = "running"
    /\ args.lookup \in {"linear", "cubic"}
    /\ i = Len(phase)
    /\ outcome' = "returned"
    /\ UNCHANGED <<table, op, args, ret, eff, buffers, cubic>>

\* The lookup mode is neither :linear nor :cubic.
wavetable_lookup_invalid ==
    /\ op = "wavetable_lookup"
    /\ outcome = "running"
    /\ args.lookup \notin {"linear", "cubic"}
    /\ outcome' = "raised"
    /\ UNCHANGED <<table, op, args, ret, eff, buffers, cubic>>

\* Arguments of a batch call: every pair of buffers of one length with
\* every kernel and mode; every pair of buffers of different lengths; one
\* array in both roles; an unknown kernel or mode symbol, and each shape
\* defect, with buffers of equal contents.
SameLength == {np \in Buffers \X Buffers : Len(np[1]) = Len(np[2])}
OtherLength == {np \in Buffers \X Buffers : Len(np[1]) # Len(np[2])}
BatchInputs ==
    {<<np[1], np[2], FALSE, l, w, "none">> :
        np \in SameLength, l \in {"linear", "cubic"}, w \in wrapping_mode}
    \cup {<<np[1], np[2], FALSE, "linear", "wrap", "none">> :
            np \in OtherLength}
    \cup {<<b, b, TRUE, l, w, "none">> :
            b \in Buffers, l \in {"linear", "cubic"}, w \in wrapping_mode}
    \cup {<<b, b, FALSE, "other", w, "none">> : b \in Buffers, w \in WrapSyms}
    \cup {<<b, b, FALSE, l, "other", "none">> :
            b \in Buffers, l \in {"linear", "cubic"}}
    \cup {<<b, b, FALSE, "linear", "wrap", d>> : b \in Buffers, d \in Defects}

BatchCall == \E a \in BatchInputs :
                wavetable_lookup_begin(a[1], a[2], a[3], a[4], a[5], a[6])

\* The batch lookup is tried on the ramps of every shape.
InitBatch ==
    /\ rows \in 0 .. MaxRows
    /\ columns \in 0 .. MaxCols
    /\ wavetable \in {Ramp(rows, columns), NegRamp(rows, columns)}
    /\ InitCall

NextBatch ==
    \/ BatchCall
    \/ wavetable_lookup_step
    \/ wavetable_lookup_return
    \/ wavetable_lookup_invalid
    \/ Finish

SpecBatch == InitBatch /\ [][NextBatch]_vars

\* ================================================================ claims
\* The C lookup of the given kernel on the table of the state.
Lookup(kernel, rho, phi, wrap) ==
    IF kernel = "linear"
    THEN outer_linear(wavetable, rows, columns, rho, phi, wrap)
    ELSE outer_cubic(wavetable, rows, columns, rho, phi, wrap)

\* A single-point lookup was called with well-formed arguments.
SinglePoint ==
    /\ op \in {"outer_linear", "outer_cubic"}
    /\ args.wrap \in wrapping_mode
    /\ args.defect = "none"

\* ... on a table with at least one row and one column, and it returned.
SingleReturned ==
    /\ SinglePoint
    /\ rows >= 1
    /\ columns >= 1
    /\ outcome = "returned"

\* C1 Row wrap idempotence: on a table with rows >= 1 and columns >= 1, for
\* either kernel, every boundary policy, every phase and every number
\* (negative whole numbers included), the lookup at number returns what the
\* lookup at number + 1.0 returns.
C1_RowWrapIdempotence ==
    SingleReturned =>
        ret = Lookup(args.lookup, args.number + Den, args.phase, args.wrap).val

\* C2 Zero columns: a single-point lookup on a table with columns = 0 (and
\* rows >= 1) returns the explicit "no value" result (nil) and performs no
\* boundary fetch, no remainder by columns and no table read.
C2_ZeroColumnsNoValue ==
    (SinglePoint /\ rows >= 1 /\ columns = 0) =>
        /\ outcome = "nil"
        /\ eff.fetches = 0
        /\ ~eff.modcols
        /\ "columns" \notin eff.dz
        /\ eff.reads = {}

\* The linear, the cubic or the batch lookup was called with arguments
\* that are well-formed but for the table's number of rows.
AnyLookup ==
    \/ SinglePoint
    \/ /\ op = "wavetable_lookup"
       /\ args.wrap \in wrapping_mode
       /\ args.lookup \in {"linear", "cubic"}
       /\ args.defect = "none"
       /\ Len(number0) = Len(phase0)

\* C3 Zero rows: a table with rows = 0 passed to the linear, the cubic or
\* the batch lookup is rejected with a failure: the call ends by raising,
\* no remainder by rows is taken, no table element is read and no element
\* of phase is written.
C3_ZeroRowsRejected ==
    (AnyLookup /\ rows = 0 /\ outcome # "running") =>
        /\ outcome = "raised"
        /\ ~eff.modrows
        /\ "rows" \notin eff.dz
        /\ eff.reads = {}
        /\ access = <<>>
        /\ phase = phase0

\* The batch lookup returned, and no lookup of it was undefined behaviour.
BatchReturned ==
    /\ op = "wavetable_lookup"
    /\ outcome = "returned"
    /\ ~eff.ub

\* The accesses of phase slot k (0-based) so far, in order.
SlotAccess(k) == SelectSeq(access, LAMBDA a : a[2] = k)

\* Every slot of phase was read and then written, once each.
ReadThenWrittenOnce ==
    \A k \in 0 .. (Len(phase) - 1) :
        SlotAccess(k) = <<<<"read", k>>, <<"write", k>>>>

\* No slot of phase was written more than once, nor before it was read.
WrittenAtMostOnce ==
    \A k \in 0 .. (Len(phase) - 1) :
        SlotAccess(k) \in {<<>>, <<<<"read", k>>, <<"write", k>>>>}

\* The single-point lookup of slot k (1-based) of the buffers passed in.
Independent(k) ==
    Lookup(args.lookup, number0[k], phase0[k], args.wrap).val

BatchPreconditionFails ==
    /\ op = "wavetable_lookup"
    /\ \/ Len(number0) # Len(phase0)
       \/ args.defect \in Defects
       \/ args.lookup \notin {"linear", "cubic"}
       \/ args.wrap \notin wrapping_mode

\* C5 Failed batch calls: a batch lookup that fails a precondition (lengths
\* that differ, a number, phase or table of the wrong dimension or not
\* contiguous, an unknown kernel or mode) never returns and never writes
\* phase: it raises, at the latest when the kernel is dispatched.
C5_FailedCallLeavesPhase ==
    BatchPreconditionFails =>
        /\ phase = phase0
        /\ access = <<>>
        /\ i = 0
        /\ outcome \in {"raised", "running"}
        /\ outcome = "running" => args.lookup \notin {"linear", "cubic"}

\* A batch call with a longer number than phase, phase not empty, raised.
C5_Witness ==
    /\ BatchPreconditionFails
    /\ outcome = "raised"
    /\ Len(number0) > Len(phase0)
    /\ Len(phase0) >= 1
    /\ rows >= 1
    /\ columns >= 1

C8_LinearConvex ==
    (SingleReturned /\ op = "outer_linear") =>
        /\ eff.rowratio \in 0 .. Den
        /\ eff.colratio \in 0 .. Den
        /\ \E k \in 1 .. 4 : eff.corners[k] * Scale <= ret
        /\ \E k \in 1 .. 4 : ret <= eff.corners[k] * Scale

\* C9 Cubic matches linear at sample points: on a table with rows >= 1 and
\* columns >= 1, for every policy and number, when phase * columns is a
\* whole number the cubic lookup returns what the linear lookup returns.
C9_CubicMatchesLinearAtSamples ==
    (SingleReturned /\ op = "outer_cubic"
        /\ (args.phase * columns) % Den = 0) =>
        ret = outer_linear(wavetable, rows, columns, args.number, args.phase,
                           args.wrap).val

\* The cubic lookup returned at a sample point left of the table, between
\* two rows that differ there.
C9_Witness ==
    /\ SingleReturned
    /\ op = "outer_cubic"
    /\ (args.phase * columns) % Den = 0
    /\ args.phase < 0
    /\ eff.rowratio \in 1 .. (Den - 1)
    /\ eff.corners[2] # eff.corners[6]

\* C10 Wrap fetch: for columns >= 1 and every signed index, the fetch with
\* policy wrap returns row[((index % columns) + columns) % columns], % being
\* C's, which is the element at the non-negative residue of index modulo
\* columns, and reads nothing else.
C10_WrapFetch ==
    (op = "fetch_oob" /\ args.wrap = "wrap" /\ rows >= 1 /\ columns >= 1) =>
        /\ outcome = "returned"
        /\ ret = wavetable[(CRem(args.idx, columns) + columns) % columns]
                    * Scale
        /\ (CRem(args.idx, columns) + columns) % columns
              = args.idx % columns
        /\ eff.reads = {args.idx % columns}

\* The wrap fetch returned for a negative multiple of columns.
C10_Witness ==
    /\ op = "fetch_oob"
    /\ args.wrap = "wrap"
    /\ outcome = "returned"
    /\ ~eff.ub
    /\ rows >= 1
    /\ columns >= 2
    /\ args.idx < 0
    /\ args.idx % columns = 0
    /\ ret # 0

\* C11 Bounce fetch: for columns > 1 and every signed index, the fetch with
\* policy bounce returns row[j], j being the index reduced to [0, period)
\* by the sign-correct modulo (period = 2 * columns - 2) and folded to
\* period - j when it is columns or more; it returns the same for -index
\* and for index + period where these are indexes; for columns = 1 it
\* returns row[0] for every index.
C11_BounceFetch ==
    (op = "fetch_oob" /\ args.wrap = "bounce" /\ rows >= 1 /\ columns >= 1) =>
        /\ outcome = "returned"
        /\ ~eff.ub
        /\ IF columns = 1 THEN ret = wavetable[0] * Scale
           ELSE LET period == 2 * columns - 2
                    m == args.idx % period
                    j == IF m >= columns THEN period - m ELSE m
                    again(x) == fetch_bounce(wavetable, 0, columns, x)
                IN  /\ ret = wavetable[j] * Scale
                    /\ eff.reads = {j}
                    /\ (0 - args.idx) \in SSIZE_MIN .. SSIZE_MAX
                          => ret = again(0 - args.idx).val * Scale
                    /\ (args.idx + period) \in SSIZE_MIN .. SSIZE_MAX
                          => ret = again(args.idx + period).val * Scale

\* C12 Clamp and zero fetch: for columns >= 1 and every signed index, the
\* fetch with policy clamp returns row[min(max(index, 0), columns - 1)] and
\* reads nothing else; the fetch with policy zero returns 0.0 and reads
\* nothing when index < 0 or index >= columns, and row[index] otherwise.
C12_ClampZeroFetch ==
    (op = "fetch_oob" /\ args.wrap \in {"clamp", "zero"}
        /\ rows >= 1 /\ columns >= 1) =>
        LET idx == args.idx
            lo == IF idx > 0 THEN idx ELSE 0
            j == IF lo < columns - 1 THEN lo ELSE columns - 1
        IN  /\ outcome = "returned"
            /\ ~eff.ub
            /\ args.wrap = "clamp" =>
                  /\ ret = wavetable[j] * Scale
                  /\ eff.reads = {j}
            /\ (args.wrap = "zero" /\ (idx < 0 \/ idx >= columns)) =>
                  /\ ret = 0
                  /\ eff.reads = {}
            /\ (args.wrap = "zero" /\ idx >= 0 /\ idx < columns) =>
                  /\ ret = wavetable[idx] * Scale
                  /\ eff.reads = {idx}

\* The clamp fetch returned the last element of a row of two columns or
\* more for the index one past it.
C12_Witness ==
    /\ op = "fetch_oob"
    /\ args.wrap = "clamp"
    /\ outcome = "returned"
    /\ ~eff.ub
    /\ rows >= 1
    /\ columns >= 2
    /\ args.idx = columns
    /\ eff.reads = {columns - 1}
    /\ ret # 0

C14_ReadsInTable ==
    (SinglePoint /\ rows >= 1 /\ columns >= 1) =>
        LET row1 == Floor(NormNumber(args.number) * rows) % rows
            row2 == (row1 + 1) % rows
            col1 == Floor(args.phase * columns)
            stencil == IF op = "outer_linear" THEN col1 .. (col1 + 1)
                       ELSE (col1 - 1) .. (col1 + 2)
        IN  /\ outcome = "returned"
            /\ ~eff.ub
            /\ \A o \in eff.reads :
                  /\ o \in 0 .. (rows * columns - 1)
                  /\ o \div columns \in {row1, row2}
                  /\ \E c \in stencil :
                        o \in fetch_oob(wavetable, (o \div columns) * columns,
                                        columns, c, args.wrap).reads

====
